---- MODULE Spec2Model ----
(***************************************************************************)
(* The paper-trade lifecycle of the unusual-options scanner:               *)
(* PaperTradingService (services/paperTrading.ts), the scan cycle of       *)
(* OptionsScanner (scanner.ts) and the SupabaseService calls they make on  *)
(* the unusual_signals and paper_trades tables.                            *)
(*                                                                         *)
(* Spec is the service called in any order; SchedSpec is the scheduler of  *)
(* OptionsScanner.start() (first cycle, setInterval, SIGINT); ScanSpec is  *)
(* back-to-back runScan cycles as start() runs them; DetectSpec applies    *)
(* the pure functions of signalDetector.ts and utils/calculations.ts;      *)
(* TradeSpec is enterTrade, updateTrade and exitTrade on the trades of     *)
(* stored signals; UpkeepSpec is the cycles of ScanSpec with calls of      *)
(* updateTrade and exitTrade between them; EntrySpec is enterTrade and     *)
(* autoEnterSignals; StatsSpec is getPerformanceStats on a table of        *)
(* trades.                                                                 *)
(*                                                                         *)
(* Units: time is in hours since the start of the run, money is in cents,   *)
(* percentages are in hundredths of a percent (the code rounds all of them *)
(* to two decimals).  A nullable column holds NULL or a one-element tuple. *)
(***************************************************************************)
EXTENDS Integers, Sequences, FiniteSets, TLC

VARIABLES
    now,              \* wall clock (Date.now()), in hours
    config,           \* PaperTradingService.config
    unusual_signals,  \* table unusual_signals, row i has id i
    paper_trades,     \* table paper_trades, row i has id i
    scanPc,           \* position of the runScan cycle in flight ("idle": none)
    allSignals,       \* runScan's allSignals: the signals detected in this cycle
    cycleSteps,       \* the steps the cycle in flight has completed, in order
    cycleInserted,    \* ids of the rows this cycle's processSignals inserted
    openTrades,       \* monitorOpenTrades' snapshot: the trades still to visit
    last,             \* the call that was made last, with its outcome
    startPc,          \* position of OptionsScanner.start()
    isRunning,        \* OptionsScanner.isRunning
    interval,         \* the timer of setInterval: "unset", "armed", "cleared"
    sigintHandler,    \* whether start() has registered its SIGINT handler
    alive,            \* whether the process is running
    cycles,           \* the runScan calls start() has made: the step each is at
    alertService      \* whether OptionsScanner.alertService is set (Twilio)

\* The scheduler of start().
scheduler == <<startPc, isRunning, interval, sigintHandler, alive, cycles>>

vars == <<now, config, unusual_signals, paper_trades, scanPc, allSignals,
          cycleSteps, cycleInserted, openTrades, last, scheduler,
          alertService>>

---------------------------------------------------------------------------
(* Bounds of the model *)

MaxNow == 24
MaxSignals == 1
MaxTrades == 2
MaxBatch == 2
MaxCycles == 3
MaxScanSignals == 2
MaxQuotes == 3
MaxLedgerSignals == 1
MaxStatTrades == 3

(* Program constants *)

DefaultTimeLimitHours == 24
DefaultQuantity == 1
ContractSize == 100
HoursPerDay == 24
SignalFetchLimit == 1000
ExpirationsToScan == 3
\* config.signal, the defaults of loadConfig: dollars as cents, the ratio in
\* hundredths.
MinPremium == 2500000
MinVolumeOiRatio == 300
MinAbsoluteVolume == 100
MaxDte == 45

---------------------------------------------------------------------------
(* Values *)

NULL == <<>>
Some(v) == <<v>>

\* The results of a division by zero, x / 0 and 0 / 0: Infinity is above
\* and -Infinity below every finite number of the model, NaN is a value
\* apart.
PosInfinity == 2000000000
NegInfinity == -2000000000
NaN == 2100000000

NonFinite == {PosInfinity, NegInfinity, NaN}

\* JavaScript truthiness of a nullable number: null, 0 and NaN are falsy.
Truthy(x) == x # NULL /\ x[1] # 0 /\ x[1] # NaN

OrElse(x, d) == IF Truthy(x) THEN x[1] ELSE d

Max(a, b) == IF a >= b THEN a ELSE b
Min(a, b) == IF a <= b THEN a ELSE b

\* Math.max and Math.min: NaN if an argument is NaN.
MathMax(a, b) == IF a = NaN \/ b = NaN THEN NaN ELSE Max(a, b)
MathMin(a, b) == IF a = NaN \/ b = NaN THEN NaN ELSE Min(a, b)

\* Math.round(n / d) for d > 0: the nearest integer, halves towards +infinity.
Round(n, d) == (2 * n + d) \div (2 * d)

TickSteps == {24}
\* The option contracts with unusual activity, one per expiration date.
Symbols == {"NVDA250919C00175000", "NVDA250926C00175000"}
ExpirationOf(symbol) == IF symbol = "NVDA250919C00175000" THEN 24 ELSE 48
TickerOf(symbol) == IF symbol \in Symbols THEN "NVDA" ELSE "SPY"
\* getWatchlist: the enabled tickers, ordered by ticker.
Watchlists == {<<>>, <<"NVDA">>, <<"AAPL", "NVDA">>, <<"NVDA", "SPY">>}
UnderlyingLast(ticker) == IF ticker = "NVDA" THEN 17000 ELSE 50000
Expirations == {24, 48}
\* bid, ask, last of the option's quote when it is detected and when it is
\* monitored; the sums bid + ask are even, so that the midpoint is a whole
\* number of cents.
DetectionQuotes == {[bid |-> 200, ask |-> 400, last |-> 100]}
OptionQuotes == {[bid |-> 400, ask |-> 600, last |-> 450]}
\* The reasons the callers of the model pass to exitTrade, of the five the
\* column allows; exitTrade does not look at the reason.
ExitReasons == {"manual", "time_limit", "expired"}

---------------------------------------------------------------------------
(* utils/calculations.ts *)

calculateMidPrice(bid, ask) ==
    IF bid <= 0 \/ ask <= 0 THEN 0 ELSE (bid + ask) \div 2

\* There is no check of entryPrice: with an entry price of 0 the percentage
\* is exitPrice / 0, which Math.round leaves as it is.  Prices are >= 0.
calculatePnL(entryPrice, exitPrice, quantity, contractSize) ==
    [pnl |-> (exitPrice - entryPrice) * quantity * contractSize,
     pnlPct |-> IF entryPrice # 0
                THEN Round((exitPrice - entryPrice) * 10000, entryPrice)
                ELSE IF exitPrice > 0 THEN PosInfinity
                ELSE IF exitPrice < 0 THEN NegInfinity
                ELSE NaN]

\* differenceInDays(expiry, now): full days, truncated towards zero.
calculateDTE(expirationDate, t) ==
    IF expirationDate >= t THEN (expirationDate - t) \div HoursPerDay
    ELSE -((t - expirationDate) \div HoursPerDay)

calculatePremium(lastPrice, volume, contractSize) ==
    lastPrice * volume * contractSize

Abs(x) == IF x >= 0 THEN x ELSE -x

\* n / d in hundredths, truncated towards zero (d > 0): every comparison of
\* the code with a threshold that is a whole number of hundredths comes out
\* as it does for the exact quotient.
Hundredths(n, d) ==
    IF n >= 0 THEN (n * 100) \div d ELSE -((-n * 100) \div d)

\* In hundredths of a percent.
calculateMoneyness(strike, underlyingPrice, optionType) ==
    IF optionType = "call"
    THEN Hundredths((strike - underlyingPrice) * 100, underlyingPrice)
    ELSE Hundredths((underlyingPrice - strike) * 100, underlyingPrice)

\* categorizeMoneyness with -10 itself deep in the money.
categorizeMoneyness_InclusiveDeep(moneynessPercent) ==
    IF moneynessPercent <= -1000 THEN "deep_itm"
    ELSE IF moneynessPercent < -200 THEN "itm"
    ELSE IF Abs(moneynessPercent) <= 200 THEN "atm"
    ELSE IF moneynessPercent <= 1000 THEN "otm"
    ELSE "deep_otm"

\* The percent is in hundredths.
categorizeMoneyness(moneynessPercent) ==
    IF moneynessPercent < -1000 THEN "deep_itm"
    ELSE IF moneynessPercent < -200 THEN "itm"
    ELSE IF Abs(moneynessPercent) <= 200 THEN "atm"
    ELSE IF moneynessPercent <= 1000 THEN "otm"
    ELSE "deep_otm"

\* calculateSignalStrength with a ratio of more than 5.0 for high.
calculateSignalStrength_StrictRatio(volumeOiRatio, premium, dte, moneynessPercent) ==
    IF /\ volumeOiRatio > 500 /\ premium >= 10000000
       /\ dte <= 30 /\ Abs(moneynessPercent) >= 1000
    THEN "high"
    ELSE IF volumeOiRatio >= 300 /\ premium >= 2500000 /\ dte <= 45
    THEN "medium"
    ELSE "low"

\* calculateSignalStrength with a premium of 50000 for medium.
calculateSignalStrength_MediumPremium(volumeOiRatio, premium, dte, moneynessPercent) ==
    IF /\ volumeOiRatio >= 500 /\ premium >= 10000000
       /\ dte <= 30 /\ Abs(moneynessPercent) >= 1000
    THEN "high"
    ELSE IF volumeOiRatio >= 300 /\ premium >= 5000000 /\ dte <= 45
    THEN "medium"
    ELSE "low"

\* The ratio and the moneyness are in hundredths, the premium is in cents.
calculateSignalStrength(volumeOiRatio, premium, dte, moneynessPercent) ==
    IF /\ volumeOiRatio >= 500 /\ premium >= 10000000
       /\ dte <= 30 /\ Abs(moneynessPercent) >= 1000
    THEN "high"
    ELSE IF volumeOiRatio >= 300 /\ premium >= 2500000 /\ dte <= 45
    THEN "medium"
    ELSE "low"

\* meetsUnusualCriteria without the check of dte < 0.
meetsUnusualCriteria_NoDteFloor(volume, openInterest, premium, dte, cfg) ==
    IF volume < cfg.minAbsoluteVolume THEN FALSE
    ELSE IF openInterest <= 0 THEN FALSE
    ELSE IF volume * 100 < cfg.minVolumeOiRatio * openInterest THEN FALSE
    ELSE IF premium < cfg.minPremium THEN FALSE
    ELSE IF dte > cfg.maxDte THEN FALSE
    ELSE TRUE

\* The field meets of the result; volume / openInterest < minVolumeOiRatio
\* is compared without the division.
meetsUnusualCriteria(volume, openInterest, premium, dte, cfg) ==
    IF volume < cfg.minAbsoluteVolume THEN FALSE
    ELSE IF openInterest <= 0 THEN FALSE
    ELSE IF volume * 100 < cfg.minVolumeOiRatio * openInterest THEN FALSE
    ELSE IF premium < cfg.minPremium THEN FALSE
    ELSE IF dte > cfg.maxDte \/ dte < 0 THEN FALSE
    ELSE TRUE

---------------------------------------------------------------------------
(* services/signalDetector.ts: SignalDetector.  A quote is a record; a     *)
(* field the quote does not have (undefined) is NULL or "".                *)

signalConfig ==
    [minPremium |-> MinPremium, minVolumeOiRatio |-> MinVolumeOiRatio,
     minAbsoluteVolume |-> MinAbsoluteVolume, maxDte |-> MaxDte]

analyzeQuote(optionQuote, underlyingQuote, t, cfg) ==
    IF optionQuote.type # "option" \/ optionQuote.option_type = ""
    THEN NULL
    ELSE IF underlyingQuote.type \notin {"stock", "etf"}
    THEN NULL
    ELSE IF \/ optionQuote.expiration_date = NULL
            \/ ~Truthy(optionQuote.strike)
            \/ optionQuote.volume = NULL
            \/ optionQuote.open_interest = NULL
            \/ optionQuote.underlying = ""
    THEN NULL
    ELSE
      LET volume == optionQuote.volume[1]
          open_interest == optionQuote.open_interest[1]
          dte == calculateDTE(optionQuote.expiration_date[1], t)
          premium == calculatePremium(optionQuote.last, volume,
                                      optionQuote.contract_size)
          volumeOiRatio == IF open_interest > 0
                           THEN Hundredths(volume, open_interest) ELSE 0
          moneyness == calculateMoneyness(optionQuote.strike[1],
                                          underlyingQuote.last,
                                          optionQuote.option_type)
          signalStrength == calculateSignalStrength(volumeOiRatio, premium,
                                                    dte, moneyness)
      IN IF ~meetsUnusualCriteria(volume, open_interest, premium, dte, cfg)
         THEN NULL
         ELSE Some([symbol |-> optionQuote.symbol,
                    ticker |-> optionQuote.underlying,
                    option_type |-> optionQuote.option_type,
                    strike |-> optionQuote.strike[1],
                    expiration_date |-> optionQuote.expiration_date[1],
                    dte |-> dte,
                    contract_size |-> optionQuote.contract_size,
                    volume |-> volume,
                    open_interest |-> open_interest,
                    volume_oi_ratio |-> Round(volume * 100, open_interest),
                    premium |-> premium,
                    last_price |-> optionQuote.last,
                    bid |-> IF optionQuote.bid = 0 THEN NULL
                            ELSE Some(optionQuote.bid),
                    ask |-> IF optionQuote.ask = 0 THEN NULL
                            ELSE Some(optionQuote.ask),
                    underlying_price |-> underlyingQuote.last,
                    signal_strength |-> signalStrength])

\* analyzeMultipleQuotes leaving out a signal for a symbol it has already
\* emitted.
RECURSIVE analyzeMultipleQuotes_Dedup(_, _, _, _)
analyzeMultipleQuotes_Dedup(optionQuotes, underlyingQuote, t, cfg) ==
    IF optionQuotes = <<>> THEN <<>>
    ELSE LET n == Len(optionQuotes)
             signals == analyzeMultipleQuotes_Dedup(
                            SubSeq(optionQuotes, 1, n - 1), underlyingQuote,
                            t, cfg)
             signal == analyzeQuote(optionQuotes[n], underlyingQuote, t, cfg)
         IN IF /\ signal # NULL
               /\ \A k \in 1..Len(signals) :
                      signals[k].symbol # signal[1].symbol
            THEN Append(signals, signal[1])
            ELSE signals

\* The loop over optionQuotes: the signals pushed after the first n - 1
\* quotes, then the n-th.
RECURSIVE analyzeMultipleQuotes(_, _, _, _)
analyzeMultipleQuotes(optionQuotes, underlyingQuote, t, cfg) ==
    IF optionQuotes = <<>> THEN <<>>
    ELSE LET n == Len(optionQuotes)
             signals == analyzeMultipleQuotes(
                            SubSeq(optionQuotes, 1, n - 1), underlyingQuote,
                            t, cfg)
             signal == analyzeQuote(optionQuotes[n], underlyingQuote, t, cfg)
         IN IF signal # NULL THEN Append(signals, signal[1]) ELSE signals

---------------------------------------------------------------------------
(* The signals the detector can emit for the option chains scanTicker      *)
(* fetches at time t: scanTicker keeps the expirations with                *)
(* 0 < daysToExp <= maxDte, and analyzeQuote sets ticker to the quote's    *)
(* non-empty underlying and leaves id unset.                               *)

DaysTo(expiration, t) == (expiration - t) \div HoursPerDay

DetectedSignals(t) ==
    {[id |-> NULL, detected_at |-> NULL, symbol |-> s, ticker |-> TickerOf(s),
      expiration_date |-> ExpirationOf(s),
      bid |-> IF q.bid = 0 THEN NULL ELSE Some(q.bid),
      ask |-> IF q.ask = 0 THEN NULL ELSE Some(q.ask),
      last_price |-> q.last,
      underlying_price |-> UnderlyingLast(TickerOf(s))] :
        s \in {y \in Symbols : /\ ExpirationOf(y) \in Expirations
                               /\ DaysTo(ExpirationOf(y), t) > 0},
        q \in DetectionQuotes}

SeqsUpTo(S, n) == UNION {[1..k -> S] : k \in 0..n}

---------------------------------------------------------------------------
(* clients/supabase.ts: SupabaseService, on the tables as sequences of rows *)

\* order by key desc: the rows sorted by their keys (keys[i] is the key of
\* rows[i]) descending; rows with equal keys keep their table order.
SortDesc(rows, keys) ==
    LET n == Len(rows)
        rank(i) == 1 + Cardinality({j \in 1..n :
                        \/ keys[j] > keys[i]
                        \/ keys[j] = keys[i] /\ j < i})
    IN [k \in 1..n |-> rows[CHOOSE i \in 1..n : rank(i) = k]]

DetectedAt(row) == row.detected_at[1]
EntryTime(row) == row.entry_time

Take(s, n) == SubSeq(s, 1, Min(n, Len(s)))

\* select * from unusual_signals where ticker = $1
\* order by detected_at desc limit $2
getSignalsByTicker(signals, ticker, limit) ==
    LET rows == SelectSeq(signals, LAMBDA s : s.ticker = ticker)
    IN Take(SortDesc(rows, [i \in 1..Len(rows) |-> DetectedAt(rows[i])]),
            limit)

\* select * from paper_trades where status = 'open' order by entry_time desc
getOpenTrades(trades) ==
    LET rows == SelectSeq(trades, LAMBDA t : t.status = "open")
    IN SortDesc(rows, [i \in 1..Len(rows) |-> EntryTime(rows[i])])

\* A failed read is caught inside getTradeBySignalId and reported as null,
\* as is "no rows".
getTradeBySignalId(trades, signalId, readFails) ==
    LET found == SelectSeq(trades, LAMBDA t : t.signal_id = Some(signalId))
    IN IF readFails \/ found = <<>> THEN NULL ELSE Some(found[1])

\* createPaperTrade on a table without the constraint unique_trade.
createPaperTrade_NoUnique(trades, trade, t, writeFails) ==
    IF writeFails \/ trade.signal_id = NULL
    THEN [threw |-> TRUE, trades |-> trades, data |-> NULL]
    ELSE LET row == [f \in DOMAIN trade \cup {"id", "entry_time"} |->
                        CASE f = "id" -> Len(trades) + 1
                          [] f = "entry_time" -> t
                          [] OTHER -> trade[f]]
         IN [threw |-> FALSE, trades |-> Append(trades, row), data |-> Some(row)]

\* insert into paper_trades: the row gets the next id and entry_time NOW().
\* Throws on a storage error, on a null signal_id (NOT NULL) and on a second
\* trade for the same signal (CONSTRAINT unique_trade UNIQUE (signal_id)).
createPaperTrade(trades, trade, t, writeFails) ==
    IF \/ writeFails
       \/ trade.signal_id = NULL
       \/ \E i \in 1..Len(trades) : trades[i].signal_id = trade.signal_id
    THEN [threw |-> TRUE, trades |-> trades, data |-> NULL]
    ELSE LET row == [f \in DOMAIN trade \cup {"id", "entry_time"} |->
                        CASE f = "id" -> Len(trades) + 1
                          [] f = "entry_time" -> t
                          [] OTHER -> trade[f]]
         IN [threw |-> FALSE, trades |-> Append(trades, row), data |-> Some(row)]

\* update paper_trades set <updates> where id = $1 returning *
\* There is no condition on status: a closed row is updated like an open one.
updatePaperTrade(trades, tradeId, updates, writeFails) ==
    IF writeFails \/ tradeId \notin 1..Len(trades)
    THEN [threw |-> TRUE, trades |-> trades, data |-> NULL]
    ELSE LET row == [f \in DOMAIN trades[tradeId] |->
                        IF f \in DOMAIN updates THEN updates[f]
                        ELSE trades[tradeId][f]]
         IN [threw |-> FALSE,
             trades |-> [trades EXCEPT ![tradeId] = row],
             data |-> Some(row)]

---------------------------------------------------------------------------
(* services/paperTrading.ts: PaperTradingService *)

\* out.readFails: getTradeBySignalId fails; out.writeFails: createPaperTrade
\* fails.  Every exception is caught and turned into a null result.
enterTrade(trades, signal, t, out) ==
    LET existingTrade ==
            IF signal.id # NULL
            THEN getTradeBySignalId(trades, signal.id[1], out.readFails)
            ELSE NULL
        entryPrice ==
            IF Truthy(signal.bid) /\ Truthy(signal.ask)
            THEN calculateMidPrice(signal.bid[1], signal.ask[1])
            ELSE signal.last_price
        trade == [signal_id |-> signal.id,
                  direction |-> "long",
                  quantity |-> config.defaultQuantity,
                  entry_price |-> entryPrice,
                  entry_underlying_price |-> signal.underlying_price,
                  exit_price |-> NULL,
                  exit_time |-> NULL,
                  exit_underlying_price |-> NULL,
                  exit_reason |-> NULL,
                  pnl |-> NULL,
                  pnl_pct |-> NULL,
                  max_pnl |-> NULL,
                  max_pnl_pct |-> NULL,
                  min_pnl |-> NULL,
                  min_pnl_pct |-> NULL,
                  status |-> "open"]
        inserted == createPaperTrade(trades, trade, t, out.writeFails)
    IN IF existingTrade # NULL
       THEN [trades |-> trades, ret |-> existingTrade, created |-> FALSE]
       ELSE IF inserted.threw
       THEN [trades |-> trades, ret |-> NULL, created |-> FALSE]
       ELSE [trades |-> inserted.trades, ret |-> inserted.data, created |-> TRUE]

\* trade is the caller's copy of the row, which may be older than the table.
updateTrade(trades, trade, currentPrice, writeFails) ==
    LET p == calculatePnL(trade.entry_price, currentPrice, trade.quantity,
                          ContractSize)
        upd == updatePaperTrade(trades, trade.id,
                   [max_pnl |->
                        Some(MathMax(OrElse(trade.max_pnl, p.pnl), p.pnl)),
                    min_pnl |->
                        Some(MathMin(OrElse(trade.min_pnl, p.pnl), p.pnl)),
                    max_pnl_pct |->
                        Some(MathMax(OrElse(trade.max_pnl_pct, p.pnlPct),
                                     p.pnlPct)),
                    min_pnl_pct |->
                        Some(MathMin(OrElse(trade.min_pnl_pct, p.pnlPct),
                                     p.pnlPct))],
                   writeFails)
    IN upd.trades

\* exitTrade writing the exit fields and the status in two updates, the
\* second of which may fail.
exitTrade_TwoWrites(trades, trade, exitPrice, underlyingPrice, reason, t, writeFails) ==
    LET p == calculatePnL(trade.entry_price, exitPrice, trade.quantity,
                          ContractSize)
        first == updatePaperTrade(trades, trade.id,
                     [exit_price |-> Some(exitPrice),
                      exit_time |-> Some(t),
                      exit_underlying_price |-> Some(underlyingPrice),
                      exit_reason |-> Some(reason),
                      pnl |-> Some(p.pnl),
                      pnl_pct |-> Some(p.pnlPct)],
                     FALSE)
        upd == updatePaperTrade(first.trades, trade.id,
                   [status |-> "closed"], writeFails)
    IN IF upd.threw THEN [trades |-> first.trades, ret |-> NULL]
       ELSE [trades |-> upd.trades, ret |-> upd.data]

\* exitTrade without pnl_pct among the fields it writes.
exitTrade_NoPnlPct(trades, trade, exitPrice, underlyingPrice, reason, t, writeFails) ==
    LET p == calculatePnL(trade.entry_price, exitPrice, trade.quantity,
                          ContractSize)
        upd == updatePaperTrade(trades, trade.id,
                   [exit_price |-> Some(exitPrice),
                    exit_time |-> Some(t),
                    exit_underlying_price |-> Some(underlyingPrice),
                    exit_reason |-> Some(reason),
                    pnl |-> Some(p.pnl),
                    status |-> "closed"],
                   writeFails)
    IN IF upd.threw THEN [trades |-> trades, ret |-> NULL]
       ELSE [trades |-> upd.trades, ret |-> upd.data]

\* The row is written whatever its status is, and the new status is 'closed'
\* for every reason.
exitTrade(trades, trade, exitPrice, underlyingPrice, reason, t, writeFails) ==
    LET p == calculatePnL(trade.entry_price, exitPrice, trade.quantity,
                          ContractSize)
        upd == updatePaperTrade(trades, trade.id,
                   [exit_price |-> Some(exitPrice),
                    exit_time |-> Some(t),
                    exit_underlying_price |-> Some(underlyingPrice),
                    exit_reason |-> Some(reason),
                    pnl |-> Some(p.pnl),
                    pnl_pct |-> Some(p.pnlPct),
                    status |-> "closed"],
                   writeFails)
    IN IF upd.threw THEN [trades |-> trades, ret |-> NULL]
       ELSE [trades |-> upd.trades, ret |-> upd.data]

\* ROUND(n / d, 0) of PostgreSQL for d > 0: half away from zero.
RoundHalfAway(n, d) == IF n >= 0 THEN Round(n, d) ELSE -Round(-n, d)

RECURSIVE SumPnl(_)
SumPnl(rows) ==
    IF rows = <<>> THEN 0 ELSE rows[1].pnl[1] + SumPnl(Tail(rows))

RECURSIVE MaxPnl(_)
MaxPnl(rows) ==
    IF Len(rows) = 1 THEN rows[1].pnl[1]
    ELSE Max(rows[1].pnl[1], MaxPnl(Tail(rows)))

RECURSIVE MinPnl(_)
MinPnl(rows) ==
    IF Len(rows) = 1 THEN rows[1].pnl[1]
    ELSE Min(rows[1].pnl[1], MinPnl(Tail(rows)))

\* The view performance_summary: one row of aggregates over paper_trades.
\* An aggregate over no row (and a division by NULLIF(0, 0)) is NULL; the
\* aggregates of pnl skip a NULL pnl.
performance_summary(trades) ==
    LET closed == SelectSeq(trades, LAMBDA t : t.status = "closed")
        priced == SelectSeq(closed, LAMBDA t : t.pnl # NULL)
        winning == SelectSeq(priced, LAMBDA t : t.pnl[1] > 0)
        losing == SelectSeq(priced, LAMBDA t : t.pnl[1] < 0)
        breakeven == SelectSeq(priced, LAMBDA t : t.pnl[1] = 0)
    IN [total_trades |-> Len(trades),
        winning_trades |-> Len(winning),
        losing_trades |-> Len(losing),
        breakeven_trades |-> Len(breakeven),
        avg_pnl |-> IF priced = <<>> THEN NULL
                    ELSE Some(RoundHalfAway(SumPnl(priced), Len(priced))),
        max_pnl |-> IF priced = <<>> THEN NULL ELSE Some(MaxPnl(priced)),
        min_pnl |-> IF priced = <<>> THEN NULL ELSE Some(MinPnl(priced)),
        total_pnl |-> IF priced = <<>> THEN NULL ELSE Some(SumPnl(priced)),
        win_rate_pct |-> IF closed = <<>> THEN NULL
                         ELSE Some(Round(Len(winning) * 10000, Len(closed)))]

\* getPerformanceSummary: the row of the view, or null when the query fails.
getPerformanceSummary(trades, readFails) ==
    IF readFails THEN NULL ELSE Some(performance_summary(trades))

\* summary?.field || 0 for each field; the win rate is in hundredths of a
\* percent, the amounts are in cents.
getPerformanceStats(trades, readFails) ==
    LET summary == getPerformanceSummary(trades, readFails)
        count(f) == IF summary = NULL THEN 0 ELSE summary[1][f]
        amount(f) == IF summary = NULL THEN 0 ELSE OrElse(summary[1][f], 0)
    IN [totalTrades |-> count("total_trades"),
        openTrades |-> count("total_trades") - count("winning_trades")
                           - count("losing_trades"),
        closedTrades |-> count("winning_trades") + count("losing_trades"),
        winningTrades |-> count("winning_trades"),
        losingTrades |-> count("losing_trades"),
        winRate |-> amount("win_rate_pct"),
        totalPnL |-> amount("total_pnl"),
        avgPnL |-> amount("avg_pnl"),
        bestTrade |-> amount("max_pnl"),
        worstTrade |-> amount("min_pnl")]

\* The loop of autoEnterSignals leaving at the first entry that returns null.
RECURSIVE autoEnterLoop_StopOnFailure(_, _, _, _, _)
autoEnterLoop_StopOnFailure(acc, signals, i, t, outs) ==
    IF i > Len(signals) THEN acc
    ELSE IF signals[i].id = NULL
    THEN autoEnterLoop_StopOnFailure(acc, signals, i + 1, t, outs)
    ELSE LET r == enterTrade(acc.trades, signals[i], t, outs[i])
             next == [trades |-> r.trades,
                      ret |-> IF r.ret # NULL THEN Append(acc.ret, r.ret[1])
                              ELSE acc.ret,
                      calls |-> Append(acc.calls, i),
                      results |-> Append(acc.results, r.ret),
                      created |-> IF r.created THEN acc.created \cup {i}
                                  ELSE acc.created]
         IN IF r.ret = NULL THEN next
            ELSE autoEnterLoop_StopOnFailure(next, signals, i + 1, t, outs)

\* One entry per signal that has an id, in input order; a null result of
\* enterTrade is left out of the returned list and the loop goes on.
\* outs[i] is what the storage does during the entry of signals[i].
\* acc.ret is the list returned; acc.calls (the positions enterTrade was
\* called for, in call order), acc.results (what each call returned) and
\* acc.created (the positions whose call inserted a row) observe the loop.
RECURSIVE autoEnterLoop(_, _, _, _, _)
autoEnterLoop(acc, signals, i, t, outs) ==
    IF i > Len(signals) THEN acc
    ELSE IF signals[i].id = NULL
    THEN autoEnterLoop(acc, signals, i + 1, t, outs)
    ELSE LET r == enterTrade(acc.trades, signals[i], t, outs[i])
         IN autoEnterLoop(
                [trades |-> r.trades,
                 ret |-> IF r.ret # NULL THEN Append(acc.ret, r.ret[1])
                         ELSE acc.ret,
                 calls |-> Append(acc.calls, i),
                 results |-> Append(acc.results, r.ret),
                 created |-> IF r.created THEN acc.created \cup {i}
                             ELSE acc.created],
                signals, i + 1, t, outs)

autoEnterSignals(trades, signals, t, outs) ==
    LET none == [trades |-> trades, ret |-> <<>>, calls |-> <<>>,
                 results |-> <<>>, created |-> {}]
    IN IF ~config.autoEnter THEN none
       ELSE autoEnterLoop(none, signals, 1, t, outs)

\* One iteration of the loop of monitorOpenTrades, for the snapshot row
\* trade.  env is what the collaborators do during the iteration:
\*   signalsFail   getSignalsByTicker throws
\*   option        "throw", "none" (no quote in the answer) or "ok" with quote
\*   underlying    "throw", "none" or "ok"
\*   updateFails, exitFails   updatePaperTrade throws in updateTrade / exitTrade
\* Every exception ends the iteration (inner catch) and the loop goes on.
monitorTrade(trades, signals, trade, t, env) ==
    LET skipped == [trades |-> trades, lookedUp |-> FALSE, exits |-> <<>>]
        found == SelectSeq(getSignalsByTicker(signals, "", SignalFetchLimit),
                           LAMBDA s : s.id = trade.signal_id)
    IN IF env.signalsFail \/ found = <<>> THEN skipped
       ELSE IF env.option # "ok" \/ env.underlying = "throw"
       THEN [skipped EXCEPT !.lookedUp = TRUE]
       ELSE
         LET signal == found[1]
             quote == env.quote
             currentPrice == IF quote.bid # 0 /\ quote.ask # 0
                             THEN calculateMidPrice(quote.bid, quote.ask)
                             ELSE quote.last
             underlyingPrice == IF env.underlying = "ok"
                                THEN UnderlyingLast(signal.ticker) ELSE 0
             trades1 == updateTrade(trades, trade, currentPrice,
                                    env.updateFails)
             timeUp == /\ config.exitStrategy = "time_limit"
                       /\ t - trade.entry_time >= config.timeLimitHours
             trades2 == IF timeUp
                        THEN exitTrade(trades1, trade, currentPrice,
                                 underlyingPrice, "time_limit", t,
                                 env.exitFails).trades
                        ELSE trades1
             expired == DaysTo(signal.expiration_date, t) <= 0
             trades3 == IF expired
                        THEN exitTrade(trades2, trade, currentPrice,
                                 underlyingPrice, "expired", t,
                                 env.exitFails).trades
                        ELSE trades2
         IN [trades |-> trades3, lookedUp |-> TRUE,
             exits |-> (IF timeUp THEN <<"time_limit">> ELSE <<>>) \o
                       (IF expired THEN <<"expired">> ELSE <<>>)]

---------------------------------------------------------------------------
(* scanner.ts: OptionsScanner *)

\* The numbers of a set, ascending.
RECURSIVE Ascending(_)
Ascending(S) ==
    IF S = {} THEN <<>>
    ELSE LET m == CHOOSE x \in S : \A y \in S : x <= y
         IN <<m>> \o Ascending(S \ {m})

\* The elements of a set, in some order.
RECURSIVE SetToSeq(_)
SetToSeq(S) ==
    IF S = {} THEN <<>>
    ELSE LET x == CHOOSE y \in S : TRUE
         IN <<x>> \o SetToSeq(S \ {x})

\* The loop of scanTicker over expirationsToScan: a chain that throws (inner
\* catch) or has no options gives nothing and the loop goes on; a chain that
\* answers gives the signals analyzeMultipleQuotes finds in it.
RECURSIVE scanExpirations(_, _, _, _, _)
scanExpirations(acc, ticker, exps, t, out) ==
    IF exps = <<>> THEN acc
    ELSE LET e == Head(exps)
             found == IF out.chain[e] = "ok"
                      THEN SetToSeq({x \in DetectedSignals(t) :
                                        /\ x.ticker = ticker
                                        /\ x.expiration_date = e})
                      ELSE <<>>
         IN scanExpirations(
                [signals |-> acc.signals \o found,
                 fetches |-> Append(acc.fetches, <<"chain", ticker, e>>)],
                ticker, Tail(exps), t, out)

\* scanTicker: the signals found and the market-data calls made, in order.
\* No quote, no expirations and every exception outside the chain loop
\* (outer catch) give the empty list.  The expirations of the model are all
\* within maxDte.
scanTicker(ticker, t, out) ==
    LET quote == <<"quote", ticker, 0>>
        expirations == <<"expirations", ticker, 0>>
        validExpirations == Ascending({e \in Expirations : DaysTo(e, t) > 0})
        expirationsToScan == Take(validExpirations, ExpirationsToScan)
    IN IF out.quote # "ok"
       THEN [signals |-> <<>>, fetches |-> <<quote>>]
       ELSE IF out.expirations # "ok"
       THEN [signals |-> <<>>, fetches |-> <<quote, expirations>>]
       ELSE scanExpirations(
                [signals |-> <<>>, fetches |-> <<quote, expirations>>],
                ticker, expirationsToScan, t, out)

\* The ticker loop of runScan left by the first scanTicker that meets an
\* exception.
RECURSIVE scanTickers_AbortOnFailure(_, _, _, _, _)
scanTickers_AbortOnFailure(acc, watchlist, i, t, outs) ==
    IF i > Len(watchlist) THEN acc
    ELSE LET r == scanTicker(watchlist[i], t, outs[i])
             next == [signals |-> acc.signals \o r.signals,
                      fetches |-> acc.fetches \o r.fetches]
         IN IF \/ outs[i].quote = "throw" \/ outs[i].expirations = "throw"
               \/ \E e \in Expirations : outs[i].chain[e] = "throw"
            THEN [signals |-> acc.signals, fetches |-> next.fetches]
            ELSE scanTickers_AbortOnFailure(next, watchlist, i + 1, t, outs)

\* The ticker loop of runScan: allSignals.push(...signals) for every ticker
\* of the watchlist.
RECURSIVE scanTickers(_, _, _, _, _)
scanTickers(acc, watchlist, i, t, outs) ==
    IF i > Len(watchlist) THEN acc
    ELSE LET r == scanTicker(watchlist[i], t, outs[i])
         IN scanTickers([signals |-> acc.signals \o r.signals,
                         fetches |-> acc.fetches \o r.fetches],
                        watchlist, i + 1, t, outs)

\* The window of signalExists, a minute before to a minute after: two
\* instants at the same hour of the model's clock are within the minute of
\* each other, all others are not.
WithinWindow(t1, t2) == t1 = t2

\* signalExists: a row for the symbol detected within a minute of t; a
\* failed query is caught and answered false.
signalExists(signals, symbol, t, queryFails) ==
    /\ ~queryFails
    /\ \E i \in 1..Len(signals) :
          /\ signals[i].symbol = symbol
          /\ WithinWindow(signals[i].detected_at[1], t)

\* insertSignal: the row gets the next id and detected_at NOW().  A storage
\* error is thrown on; a violation of UNIQUE (symbol, detected_at), which
\* needs a row of the symbol with exactly the same timestamp, returns null.
insertSignal(signals, signal, t, out) ==
    IF out.insertFails
    THEN [threw |-> TRUE, signals |-> signals, data |-> NULL]
    ELSE IF /\ out.sameInstant
            /\ \E i \in 1..Len(signals) :
                  /\ signals[i].symbol = signal.symbol
                  /\ signals[i].detected_at = Some(t)
    THEN [threw |-> FALSE, signals |-> signals, data |-> NULL]
    ELSE LET row == [signal EXCEPT !.id = Some(Len(signals) + 1),
                                   !.detected_at = Some(t)]
         IN [threw |-> FALSE, signals |-> Append(signals, row),
             data |-> Some(row)]

\* The loop of processSignals leaving at the first alert that is not sent.
RECURSIVE processSignals_AbortOnAlertFailure(_, _, _, _, _)
processSignals_AbortOnAlertFailure(acc, signals, i, t, outs) ==
    IF i > Len(signals) THEN acc
    ELSE LET exists == signalExists(acc.signals, signals[i].symbol, t,
                                    outs[i].existsFails)
             ins == insertSignal(acc.signals, signals[i], t, outs[i])
             seen == [acc EXCEPT !.visited = @ + 1]
         IN IF exists \/ ins.threw \/ ins.data = NULL
            THEN processSignals_AbortOnAlertFailure(seen, signals, i + 1, t,
                                                    outs)
            ELSE LET id == ins.data[1].id[1]
                     next == [seen EXCEPT
                                !.signals = ins.signals,
                                !.inserted = @ \cup {id},
                                !.alerts =
                                    IF alertService
                                    THEN Append(@, [id |-> id,
                                                    outcome |-> outs[i].alert])
                                    ELSE @,
                                !.logged =
                                    IF alertService /\ outs[i].alert = "sent"
                                    THEN Append(@, [signal_id |-> id])
                                    ELSE @]
                 IN IF alertService /\ outs[i].alert # "sent" THEN next
                    ELSE processSignals_AbortOnAlertFailure(next, signals,
                                                            i + 1, t, outs)

\* The loop of processSignals sending the alert for a signal that does not
\* exist yet before it looks at what insertSignal returned.
RECURSIVE processSignals_AlertBeforeInsert(_, _, _, _, _)
processSignals_AlertBeforeInsert(acc, signals, i, t, outs) ==
    IF i > Len(signals) THEN acc
    ELSE LET exists == signalExists(acc.signals, signals[i].symbol, t,
                                    outs[i].existsFails)
             ins == insertSignal(acc.signals, signals[i], t, outs[i])
             seen == [acc EXCEPT !.visited = @ + 1]
             id == IF ins.data = NULL THEN 0 ELSE ins.data[1].id[1]
         IN IF exists \/ ins.threw
            THEN processSignals_AlertBeforeInsert(seen, signals, i + 1, t,
                                                  outs)
            ELSE processSignals_AlertBeforeInsert(
                     [seen EXCEPT
                         !.signals = ins.signals,
                         !.inserted = IF ins.data = NULL THEN @
                                      ELSE @ \cup {id},
                         !.alerts =
                             IF alertService
                             THEN Append(@, [id |-> id,
                                             outcome |-> outs[i].alert])
                             ELSE @,
                         !.logged =
                             IF alertService /\ outs[i].alert = "sent"
                             THEN Append(@, [signal_id |-> id])
                             ELSE @],
                     signals, i + 1, t, outs)

\* The loop of processSignals: a signal that exists, fails to insert or is
\* not inserted is skipped.  The objects of the batch are not changed: the
\* stored row, with its id, is a new object (insertedSignal).  With an
\* alertService, one sendSignalAlert is made for the stored signal:
\* outs[i].alert is "sent", "failed" (sendSignalAlert catches the error and
\* answers success: false) or "logFails" (the alert is sent and logAlert
\* throws, which the catch of the iteration logs).  logged is the rows
\* logAlert has added to alert_log.
RECURSIVE processSignals(_, _, _, _, _)
processSignals(acc, signals, i, t, outs) ==
    IF i > Len(signals) THEN acc
    ELSE LET exists == signalExists(acc.signals, signals[i].symbol, t,
                                    outs[i].existsFails)
             ins == insertSignal(acc.signals, signals[i], t, outs[i])
             seen == [acc EXCEPT !.visited = @ + 1]
         IN IF exists \/ ins.threw \/ ins.data = NULL
            THEN processSignals(seen, signals, i + 1, t, outs)
            ELSE LET id == ins.data[1].id[1]
                 IN processSignals(
                        [seen EXCEPT
                            !.signals = ins.signals,
                            !.inserted = @ \cup {id},
                            !.alerts =
                                IF alertService
                                THEN Append(@, [id |-> id,
                                                outcome |-> outs[i].alert])
                                ELSE @,
                            !.logged =
                                IF alertService /\ outs[i].alert = "sent"
                                THEN Append(@, [signal_id |-> id])
                                ELSE @],
                        signals, i + 1, t, outs)

\* The catch of runScan: the error is logged and runScan returns; what is
\* thrown on to the caller.
runScanCatch_Rethrow(thrown) == thrown

runScanCatch(thrown) == FALSE

\* runScan with the auto-entry ahead of processSignals.
RunScanOrder_EnterFirst == <<"scan", "enter", "process", "monitor", "stats">>

\* The statements of runScan, in order; the step after the last is none.
RunScanOrder == <<"scan", "process", "enter", "monitor", "stats">>

StepAfter(step) ==
    LET i == CHOOSE k \in 1..Len(RunScanOrder) : RunScanOrder[k] = step
    IN IF i = Len(RunScanOrder) THEN "idle" ELSE RunScanOrder[i + 1]

---------------------------------------------------------------------------
(* What the collaborators may do during a call *)

\* At most one storage call of an entry fails.
EnterOutcomes ==
    {o \in [readFails : BOOLEAN, writeFails : BOOLEAN] :
        ~(o.readFails /\ o.writeFails)}

ProcessOutcomes ==
    [existsFails : BOOLEAN, insertFails : BOOLEAN, sameInstant : BOOLEAN,
     alert : {"sent", "failed", "logFails"}]

\* What the market-data calls of one scanTicker do: getQuotes throws, has no
\* quote or answers; getExpirations likewise; getOptionsChain, for each
\* expiration, throws, has no options or answers.  The calls that are not
\* reached are fixed to "ok".
ScanOutcomes ==
    {o \in [quote : {"throw", "none", "ok"},
            expirations : {"throw", "none", "ok"},
            chain : [Expirations -> {"throw", "none", "ok"}]] :
        /\ o.quote # "ok" => o.expirations = "ok"
        /\ (o.quote # "ok" \/ o.expirations # "ok") =>
               \A e \in Expirations : o.chain[e] = "ok"}

\* The tickers (by position) whose getQuotes or getExpirations throws, and
\* the chains (ticker, expiration) whose getOptionsChain is called and
\* throws.
FailedTickers(outs) ==
    {i \in DOMAIN outs :
        outs[i].quote = "throw" \/ outs[i].expirations = "throw"}

FailedChains(watchlist, outs, t) ==
    {<<watchlist[p[1]], p[2]>> :
        p \in {q \in (DOMAIN outs) \X Expirations :
                  /\ DaysTo(q[2], t) > 0
                  /\ outs[q[1]].quote = "ok"
                  /\ outs[q[1]].expirations = "ok"
                  /\ outs[q[1]].chain[q[2]] = "throw"}}

\* What the first statements of runScan meet.
RunScanEnvs ==
    {e \in [marketStatusFails : BOOLEAN, watchlistFails : BOOLEAN,
            watchlist : Watchlists] :
        /\ ~(e.marketStatusFails /\ e.watchlistFails)
        /\ (e.marketStatusFails \/ e.watchlistFails) => e.watchlist = <<>>}

NoQuote == [bid |-> 0, ask |-> 0, last |-> 0]

MonitorEnvs ==
    {e \in [signalsFail : BOOLEAN,
            option : {"throw", "none", "ok"},
            quote : OptionQuotes \cup {NoQuote},
            underlying : {"throw", "none", "ok"},
            updateFails : BOOLEAN,
            exitFails : BOOLEAN] :
        (e.option = "ok") <=> (e.quote # NoQuote)}

\* Every collaborator answers.
HealthyEnvs ==
    {e \in MonitorEnvs : /\ ~e.signalsFail /\ e.option = "ok"
                         /\ e.underlying = "ok"
                         /\ ~e.updateFails /\ ~e.exitFails}

\* The storage answers and a price lookup (option or underlying) throws or
\* has no quote.
PriceFailedEnvs ==
    {e \in MonitorEnvs : /\ ~e.signalsFail /\ ~e.updateFails /\ ~e.exitFails
                         /\ (e.option # "ok" \/ e.underlying # "ok")}

CurrentPrices ==
    {IF q.bid # 0 /\ q.ask # 0 THEN calculateMidPrice(q.bid, q.ask)
     ELSE q.last : q \in OptionQuotes}

\* new PaperTradingService(tradier, supabase, config): the configuration
\* scanner.ts passes (the defaults), and the same with autoEnter off.
Configs ==
    {[autoEnter |-> a, exitStrategy |-> x,
      timeLimitHours |-> DefaultTimeLimitHours,
      defaultQuantity |-> DefaultQuantity] :
        a \in BOOLEAN, x \in {"time_limit"}}

NoCall == [op |-> "none"]

Rows(table) == {table[i] : i \in 1..Len(table)}

HasTrade(trades, signalId) ==
    \E i \in 1..Len(trades) : trades[i].signal_id = signalId

---------------------------------------------------------------------------
(* Initial state: the service is constructed, the tables are empty, no     *)
(* scan cycle is in flight.                                                *)

Init ==
    /\ now = 0
    /\ config \in Configs
    /\ unusual_signals = <<>>
    /\ paper_trades = <<>>
    /\ scanPc = "idle"
    /\ allSignals = <<>>
    /\ cycleSteps = <<>>
    /\ cycleInserted = {}
    /\ openTrades = <<>>
    /\ last = NoCall
    /\ startPc = "init"
    /\ isRunning = FALSE
    /\ interval = "unset"
    /\ sigintHandler = FALSE
    /\ alive = TRUE
    /\ cycles = <<>>
    /\ alertService = FALSE

scanVars == <<scanPc, allSignals, cycleSteps, cycleInserted, openTrades>>

\* Time passes.
Tick ==
    /\ \E d \in TickSteps : now + d <= MaxNow /\ now' = now + d
    /\ last = NoCall
    /\ last' = NoCall
    /\ UNCHANGED <<scheduler, alertService, config, unusual_signals, paper_trades, scanVars>>

---------------------------------------------------------------------------
(* Calls of the public methods of PaperTradingService *)

\* The methods are called one at a time, by a caller that awaits each call;
\* the signal or trade passed is one read from the tables (or, for a signal,
\* one the detector has just emitted, without an id).
EnterTrade ==
    /\ last = NoCall
    /\ scanPc = "idle"
    /\ \E signal \in Rows(unusual_signals) \cup DetectedSignals(now),
          out \in EnterOutcomes :
          LET r == enterTrade(paper_trades, signal, now, out)
          IN /\ Len(r.trades) <= MaxTrades
             /\ paper_trades' = r.trades
             /\ last' = [op |-> "enterTrade", signal_id |-> signal.id,
                         existed |-> HasTrade(paper_trades, signal.id),
                         readFails |-> out.readFails, ret |-> r.ret,
                         created |-> r.created, threw |-> FALSE]
    /\ UNCHANGED <<scheduler, alertService, now, config, unusual_signals, scanVars>>

\* updateTrade with a current price among prices.
UpdateTradeAt(prices) ==
    /\ last = NoCall
    /\ scanPc = "idle"
    /\ \E i \in 1..Len(paper_trades), price \in prices,
          writeFails \in BOOLEAN :
          /\ paper_trades' = updateTrade(paper_trades, paper_trades[i], price,
                                         writeFails)
          /\ last' = [op |-> "updateTrade", id |-> i, threw |-> FALSE,
                      writeFails |-> writeFails, price |-> price]
    /\ UNCHANGED <<scheduler, alertService, now, config, unusual_signals, scanVars>>

UpdateTrade == UpdateTradeAt(CurrentPrices)

\* exitTrade with an exit price among prices.
ExitTradeAt(prices) ==
    /\ last = NoCall
    /\ scanPc = "idle"
    /\ \E i \in 1..Len(paper_trades), price \in prices,
          reason \in ExitReasons, writeFails \in BOOLEAN :
          LET trade == paper_trades[i]
              signal == unusual_signals[trade.signal_id[1]]
              r == exitTrade(paper_trades, trade, price,
                             UnderlyingLast(signal.ticker), reason, now,
                             writeFails)
          IN /\ paper_trades' = r.trades
             /\ last' = [op |-> "exitTrade", id |-> i, reason |-> reason,
                         wasOpen |-> trade.status = "open",
                         written |-> r.ret # NULL, threw |-> FALSE,
                         writeFails |-> writeFails]
    /\ UNCHANGED <<scheduler, alertService, now, config, unusual_signals, scanVars>>

ExitTrade == ExitTradeAt(CurrentPrices)

\* One signal the detector emits at t, not stored (no id): no storage call
\* is made for it.
Unstored(t) ==
    IF DetectedSignals(t) = {} THEN {}
    ELSE {CHOOSE s \in DetectedSignals(t) : TRUE}

NoFailure == [readFails |-> FALSE, writeFails |-> FALSE]

\* The entries whose storage calls did not all succeed.
FailedEntries(signals, outs) ==
    {i \in 1..Len(signals) : outs[i].readFails \/ outs[i].writeFails}

Ids(signals) == [i \in 1..Len(signals) |-> signals[i].id]

AutoEnterSignals ==
    /\ last = NoCall
    /\ scanPc = "idle"
    /\ \E signals \in SeqsUpTo(Rows(unusual_signals) \cup
                               Unstored(now), MaxBatch) :
       \E outs \in [1..Len(signals) -> EnterOutcomes] :
          LET r == autoEnterSignals(paper_trades, signals, now, outs)
          IN /\ signals # <<>>
             /\ \A i \in 1..Len(signals) :
                   signals[i].id = NULL => outs[i] = NoFailure
             /\ Len(r.trades) <= MaxTrades
             /\ paper_trades' = r.trades
             /\ last' = [op |-> "autoEnterSignals", caller |-> "api",
                         ids |-> Ids(signals),
                         failed |-> FailedEntries(signals, outs),
                         ret |-> r.ret, calls |-> r.calls,
                         results |-> r.results, created |-> r.created]
    /\ UNCHANGED <<scheduler, alertService, now, config, unusual_signals, scanVars>>

---------------------------------------------------------------------------
(* One runScan cycle, step by step *)

\* runScan up to the end of the ticker loop, with at most cap signals
\* detected: getMarketStatus or getWatchlist throws (outer catch) or the
\* watchlist is empty (return), and the cycle is over; otherwise scanTicker
\* has collected the signals of the cycle.
RunScanBeginUpTo(cap) ==
    /\ last = NoCall
    /\ scanPc = "idle"
    /\ \E env \in RunScanEnvs :
       \E outs \in [1..Len(env.watchlist) -> ScanOutcomes] :
          LET thrown == env.marketStatusFails \/ env.watchlistFails
              r == scanTickers([signals |-> <<>>, fetches |-> <<>>],
                               env.watchlist, 1, now, outs)
          IN IF thrown \/ env.watchlist = <<>>
             THEN /\ scanPc' = "idle"
                  /\ allSignals' = <<>>
                  /\ cycleSteps' = <<>>
                  /\ last' = [op |-> "runScan", steps |-> <<>>,
                              thrown |-> thrown,
                              propagated |-> thrown /\ runScanCatch(thrown)]
             ELSE /\ Len(r.signals) <= cap
                  /\ scanPc' = StepAfter("scan")
                  /\ allSignals' = r.signals
                  /\ cycleSteps' = <<"scan">>
                  /\ last' = [op |-> "scanTickers",
                              watchlist |-> env.watchlist,
                              failed |-> FailedTickers(outs),
                              chainFailed |-> FailedChains(env.watchlist,
                                                           outs, now),
                              fetches |-> r.fetches]
    /\ cycleInserted' = {}
    /\ UNCHANGED <<scheduler, alertService, now, config, unusual_signals,
                   paper_trades, openTrades>>

RunScanBegin ==
    RunScanBeginUpTo(Min(MaxBatch, MaxSignals - Len(unusual_signals)))

RunScanProcess ==
    /\ last = NoCall
    /\ scanPc = "process"
    /\ \E outs \in [1..Len(allSignals) -> ProcessOutcomes] :
          LET r == processSignals([signals |-> unusual_signals,
                                   inserted |-> {}, alerts |-> <<>>,
                                   logged |-> <<>>, visited |-> 0],
                                  allSignals, 1, now, outs)
          IN /\ unusual_signals' = r.signals
             /\ cycleInserted' = r.inserted
             /\ last' = [op |-> "processSignals",
                         inserted |-> r.inserted, alerts |-> r.alerts,
                         logged |-> r.logged, visited |-> r.visited,
                         before |-> Len(unusual_signals)]
    /\ scanPc' = StepAfter("process")
    /\ cycleSteps' = Append(cycleSteps, "process")
    /\ UNCHANGED <<scheduler, alertService, now, config, paper_trades, allSignals, openTrades>>

RunScanAutoEnter ==
    /\ last = NoCall
    /\ scanPc = "enter"
    /\ \E outs \in [1..Len(allSignals) -> EnterOutcomes] :
          LET r == IF Len(allSignals) > 0
                   THEN autoEnterSignals(paper_trades, allSignals, now, outs)
                   ELSE [trades |-> paper_trades, ret |-> <<>>,
                         calls |-> <<>>, results |-> <<>>, created |-> {}]
          IN /\ paper_trades' = r.trades
             /\ last' = [op |-> "autoEnterSignals", caller |-> "runScan",
                         ids |-> Ids(allSignals),
                         failed |-> FailedEntries(allSignals, outs),
                         ret |-> r.ret, calls |-> r.calls,
                         results |-> r.results, created |-> r.created]
    /\ scanPc' = StepAfter("enter")
    /\ cycleSteps' = Append(cycleSteps, "enter")
    /\ UNCHANGED <<scheduler, alertService, now, config, unusual_signals, allSignals, cycleInserted,
                   openTrades>>

\* monitorOpenTrades up to the loop: getOpenTrades throws (outer catch) or
\* there is no open trade (return), and the pass is over.
MonitorBegin ==
    /\ last = NoCall
    /\ scanPc = "monitor"
    /\ \E readFails \in BOOLEAN :
          LET open == IF readFails THEN <<>> ELSE getOpenTrades(paper_trades)
          IN /\ openTrades' = open
             /\ scanPc' = IF open = <<>> THEN StepAfter("monitor")
                          ELSE "monitorLoop"
             /\ cycleSteps' = IF open = <<>> THEN Append(cycleSteps, "monitor")
                              ELSE cycleSteps
             /\ last' = NoCall
    /\ UNCHANGED <<scheduler, alertService, now, config, unusual_signals, paper_trades, allSignals,
                   cycleInserted>>

\* One iteration of the loop, for the first trade of the snapshot left.
MonitorTrade ==
    /\ last = NoCall
    /\ scanPc = "monitorLoop"
    /\ \E env \in MonitorEnvs :
          LET trade == Head(openTrades)
              r == monitorTrade(paper_trades, unusual_signals, trade, now, env)
              signal == unusual_signals[trade.signal_id[1]]
          IN /\ paper_trades' = r.trades
             /\ last' = [op |-> "monitorTrade", id |-> trade.id,
                         healthy |-> env \in HealthyEnvs,
                         priceFailed |-> env \in PriceFailedEnvs,
                         hoursOpen |-> now - trade.entry_time,
                         daysToExpiry |-> DaysTo(signal.expiration_date, now),
                         lookedUp |-> r.lookedUp, exits |-> r.exits]
    /\ openTrades' = Tail(openTrades)
    /\ scanPc' = IF Tail(openTrades) = <<>> THEN StepAfter("monitor")
                 ELSE scanPc
    /\ cycleSteps' = IF Tail(openTrades) = <<>>
                     THEN Append(cycleSteps, "monitor") ELSE cycleSteps
    /\ UNCHANGED <<scheduler, alertService, now, config, unusual_signals, allSignals, cycleInserted>>

\* getPerformanceStats and the summary: reads only.
RunScanEnd ==
    /\ last = NoCall
    /\ scanPc = "stats"
    /\ scanPc' = StepAfter("stats")
    /\ allSignals' = <<>>
    /\ cycleSteps' = <<>>
    /\ cycleInserted' = {}
    /\ last' = [op |-> "runScan", steps |-> Append(cycleSteps, "stats"),
                thrown |-> FALSE, propagated |-> FALSE]
    /\ UNCHANGED <<scheduler, alertService, now, config, unusual_signals, paper_trades, openTrades>>

\* The call made last has returned and its caller goes on.
Return ==
    /\ last # NoCall
    /\ last' = NoCall
    /\ UNCHANGED <<scheduler, alertService, now, config, unusual_signals, paper_trades, scanVars>>

Next ==
    \/ Tick
    \/ EnterTrade
    \/ UpdateTrade
    \/ ExitTrade
    \/ AutoEnterSignals
    \/ RunScanBegin
    \/ RunScanProcess
    \/ RunScanAutoEnter
    \/ MonitorBegin
    \/ MonitorTrade
    \/ RunScanEnd
    \/ Return

Spec == Init /\ [][Next]_vars

---------------------------------------------------------------------------
(* scanner.ts: OptionsScanner.start(), the scheduler of the scan cycles.    *)
(* A cycle is followed through the statements of runScan; what the         *)
(* statements do to the tables is left to Spec.                            *)

service == <<now, config, unusual_signals, paper_trades, scanVars, last,
             alertService>>

InFlight == {c \in 1..Len(cycles) : cycles[c] # "idle"}

\* start() up to its first await: isRunning is set and the first runScan is
\* called.
StartScanner ==
    /\ alive /\ startPc = "init" /\ ~isRunning
    /\ isRunning' = TRUE
    /\ cycles' = Append(cycles, RunScanOrder[1])
    /\ startPc' = "firstScan"
    /\ UNCHANGED <<interval, sigintHandler, alive, service>>

\* start() after the first runScan has returned: setInterval and
\* process.on('SIGINT').
ScheduleScans ==
    /\ alive /\ startPc = "firstScan" /\ InFlight = {}
    /\ interval' = "armed"
    /\ sigintHandler' = TRUE
    /\ startPc' = "scheduled"
    /\ UNCHANGED <<isRunning, alive, cycles, service>>

\* The timer fires and its callback runs up to its first await: the timer
\* does not wait for the promise of an earlier callback.
IntervalFires ==
    /\ alive /\ interval = "armed" /\ Len(cycles) < MaxCycles
    /\ IF ~isRunning
       THEN interval' = "cleared" /\ UNCHANGED cycles
       ELSE cycles' = Append(cycles, RunScanOrder[1]) /\ UNCHANGED interval
    /\ UNCHANGED <<startPc, isRunning, sigintHandler, alive, service>>

\* A runScan in flight goes on from an await to the next.  The first
\* statement group also ends the cycle: getMarketStatus or getWatchlist
\* throws (outer catch) or the watchlist is empty (return).
RunScanStep ==
    /\ alive
    /\ \E c \in InFlight :
       \E next \in {StepAfter(cycles[c])} \cup
                   (IF cycles[c] = RunScanOrder[1] THEN {"idle"} ELSE {}) :
          cycles' = [cycles EXCEPT ![c] = next]
    /\ UNCHANGED <<startPc, isRunning, interval, sigintHandler, alive,
                   service>>

\* SIGINT arrives.  The handler of start() stops the timer and calls
\* process.exit(0); before the handler is registered (during the first
\* runScan) the signal ends the process as well.
Sigint ==
    /\ alive
    /\ alive' = FALSE
    /\ IF sigintHandler
       THEN isRunning' = FALSE /\ interval' = "cleared"
       ELSE UNCHANGED <<isRunning, interval>>
    /\ UNCHANGED <<startPc, sigintHandler, cycles, service>>

SchedNext ==
    \/ StartScanner
    \/ ScheduleScans
    \/ IntervalFires
    \/ RunScanStep
    \/ Sigint

SchedSpec == Init /\ [][SchedNext]_vars

---------------------------------------------------------------------------
(* Properties *)

Monitored == last.op = "monitorTrade"

TimeLimitReached ==
    /\ config.exitStrategy = "time_limit"
    /\ last.hoursOpen >= config.timeLimitHours

\* C1: an open trade whose time since entry has reached the time limit is
\* exited with reason time_limit by the monitoring pass that visits it (it is
\* no longer open after its iteration), whether or not the option has
\* expired, when every collaborator answers.
C1_TimeLimitExit ==
    (Monitored /\ last.healthy /\ TimeLimitReached) =>
        /\ paper_trades[last.id].status # "open"
        /\ paper_trades[last.id].exit_reason = Some("time_limit")

\* C2: a monitoring pass applies at most one exit to a trade, and when the
\* time limit is reached and the option has expired in the same pass, the
\* exit reason stored is time_limit.
C2_TimeLimitBeforeExpired ==
    (Monitored /\ last.healthy /\ TimeLimitReached /\ last.daysToExpiry <= 0) =>
        /\ Len(last.exits) <= 1
        /\ paper_trades[last.id].exit_reason = Some("time_limit")

\* C3: once a trade is closed or expired, no call ever writes any of its
\* fields again (it leaves status open once, and is immutable afterwards).
C3_TerminalImmutable ==
    [][\A i \in 1..Len(paper_trades) :
          paper_trades[i].status # "open" => paper_trades'[i] = paper_trades[i]]_vars

\* C4: exitTrade on a trade that is already closed or expired is reported to
\* the caller as an error and leaves the stored record unchanged.
C4_ExitClosedRejected ==
    [][(last'.op = "exitTrade" /\ ~last'.wasOpen) =>
          (last'.threw /\ paper_trades' = paper_trades)]_vars

\* C5: a trade that is not open has status expired if and only if its exit
\* reason is expired (an exit with reason expired gives status expired, any
\* other reason gives status closed).
C5_ExpiredStatus ==
    \A i \in 1..Len(paper_trades) :
        paper_trades[i].status # "open" =>
            (paper_trades[i].status = "expired"
                <=> paper_trades[i].exit_reason = Some("expired"))

OneTradePerSignal ==
    \A i, j \in 1..Len(paper_trades) :
        i # j => paper_trades[i].signal_id # paper_trades[j].signal_id

ReturnedStoredTrade ==
    \E i \in 1..Len(paper_trades) :
        /\ paper_trades[i].signal_id = last.signal_id
        /\ last.ret = Some(paper_trades[i])

SecondEnter == last.op = "enterTrade" /\ last.existed

\* C6 as claimed: at most one trade exists per signal id, and enterTrade for
\* a signal that already has a trade creates nothing and returns that trade.
C6_SecondEnterReturnsExisting ==
    /\ OneTradePerSignal
    /\ SecondEnter => (~last.created /\ ReturnedStoredTrade)

\* C6 as amended: at most one trade exists per signal id, and enterTrade for
\* a signal that already has a trade creates nothing; it returns that trade
\* when the lookup of the existing trade succeeds and null when it fails.
C6_OneTradePerSignal ==
    /\ OneTradePerSignal
    /\ SecondEnter =>
          /\ ~last.created
          /\ IF last.readFails THEN last.ret = NULL ELSE ReturnedStoredTrade

C6_Witness == SecondEnter /\ ~last.readFails /\ last.ret # NULL

AutoEntered == last.op = "autoEnterSignals"

\* C7: with auto-entry enabled, every signal that this cycle's processSignals
\* stored has an open paper trade when the cycle's auto-entry step is over.
C7_NewSignalsEntered ==
    (AutoEntered /\ last.caller = "runScan" /\ config.autoEnter
        /\ last.failed = {}) =>
        \A id \in cycleInserted :
            \E i \in 1..Len(paper_trades) :
                /\ paper_trades[i].signal_id = Some(id)
                /\ paper_trades[i].status = "open"

\* C8: within a cycle the auto-entry step runs only after processSignals has
\* finished with the cycle's batch.
C8_PersistBeforeEnter ==
    \A i \in 1..Len(cycleSteps) :
        cycleSteps[i] = "enter" =>
            \E j \in 1..(i - 1) : cycleSteps[j] = "process"

C8_Witness ==
    /\ AutoEntered /\ last.caller = "runScan"
    /\ allSignals # <<>> /\ cycleInserted # {}
    /\ cycleSteps = <<"scan", "process", "enter">>

WithId(ids) == {i \in 1..Len(ids) : ids[i] # NULL}

\* The non-null elements of a sequence of nullable values, in order.
RECURSIVE Present(_)
Present(results) ==
    IF results = <<>> THEN <<>>
    ELSE (IF Head(results) = NULL THEN <<>> ELSE <<Head(results)[1]>>)
         \o Present(Tail(results))

\* C9: autoEnterSignals calls enterTrade once for each signal that has an id,
\* in input order, whatever the earlier entries returned; it creates no trade
\* for a signal without an id; it returns the trades of the calls that
\* returned one, in order, each the stored trade of its signal, and an entry
\* whose storage calls succeed returns one; with autoEnter off it makes no
\* call, creates nothing and returns the empty list.
C9_AutoEnterBatch ==
    AutoEntered =>
        IF ~config.autoEnter
        THEN last.ret = <<>> /\ last.calls = <<>> /\ last.created = {}
        ELSE /\ {last.calls[k] : k \in 1..Len(last.calls)} = WithId(last.ids)
             /\ \A k \in 1..(Len(last.calls) - 1) :
                   last.calls[k] < last.calls[k + 1]
             /\ last.created \subseteq WithId(last.ids)
             /\ last.ret = Present(last.results)
             /\ \A k \in 1..Len(last.calls) :
                   /\ last.results[k] # NULL =>
                         /\ last.results[k][1].signal_id = last.ids[last.calls[k]]
                         /\ paper_trades[last.results[k][1].id] = last.results[k][1]
                   /\ last.calls[k] \notin last.failed => last.results[k] # NULL
             /\ \A i \in 1..Len(paper_trades) : paper_trades[i].signal_id # NULL

C9_Witness ==
    /\ AutoEntered /\ config.autoEnter
    /\ Len(last.calls) = 2
    /\ last.results[1] = NULL /\ last.results[2] # NULL
    /\ last.created = {2}

C15_FailedWriteChangesNothing ==
    [][/\ (/\ last'.op \in {"updateTrade", "exitTrade"}
           /\ last'.writeFails) =>
               /\ paper_trades' = paper_trades
               /\ ~last'.threw
               /\ last'.op = "exitTrade" => ~last'.written
       /\ last'.op = "monitorTrade" => openTrades' = Tail(openTrades)]_vars

C15_Witness ==
    /\ last.op = "exitTrade" /\ last.writeFails /\ ~last.written
    /\ last.wasOpen
    /\ paper_trades[last.id].status = "open"
    /\ paper_trades[last.id].exit_reason = NULL

---------------------------------------------------------------------------
(* The scanner on its own: the scan cycles of runScan, one after the other, *)
(* with no other caller of the PaperTradingService.  The tables are empty  *)
(* or hold what an earlier run left: one stored signal with an open trade. *)

SeedSignals ==
    LET s == CHOOSE x \in DetectedSignals(0) :
                 \A y \in DetectedSignals(0) :
                     x.expiration_date >= y.expiration_date
    IN insertSignal(<<>>, s, 0,
                    [insertFails |-> FALSE, sameInstant |-> FALSE]).signals

SeedTrades == enterTrade(<<>>, SeedSignals[1], 0, NoFailure).trades

ScanInit ==
    /\ now = 0
    /\ config \in {c \in Configs : c.autoEnter}
    /\ alertService \in BOOLEAN
    /\ \/ unusual_signals = <<>> /\ paper_trades = <<>>
       \/ unusual_signals = SeedSignals /\ paper_trades = SeedTrades
    /\ scanPc = "idle"
    /\ allSignals = <<>>
    /\ cycleSteps = <<>>
    /\ cycleInserted = {}
    /\ openTrades = <<>>
    /\ last = NoCall
    /\ startPc = "init"
    /\ isRunning = FALSE
    /\ interval = "unset"
    /\ sigintHandler = FALSE
    /\ alive = TRUE
    /\ cycles = <<>>

ScanBegin == RunScanBeginUpTo(MaxScanSignals - Len(unusual_signals))

\* The steps of a cycle in flight.
CycleNext ==
    \/ RunScanProcess
    \/ RunScanAutoEnter
    \/ MonitorBegin
    \/ MonitorTrade
    \/ RunScanEnd
    \/ Return

ScanNext ==
    \/ Tick
    \/ ScanBegin
    \/ RunScanProcess
    \/ RunScanAutoEnter
    \/ MonitorBegin
    \/ MonitorTrade
    \/ RunScanEnd
    \/ Return

ScanSpec == ScanInit /\ [][ScanNext]_vars

---------------------------------------------------------------------------
(* The detector on its own: analyzeQuote and calculateSignalStrength       *)
(* applied to one input, drawn at the start.                               *)

\* An option quote and an underlying quote that pass every check of
\* analyzeQuote on the structure of the pair.
BaseOptionQuote ==
    [type |-> "option", option_type |-> "call",
     symbol |-> "NVDA250919C00175000", underlying |-> "NVDA",
     strike |-> Some(17500), expiration_date |-> Some(MaxDte * HoursPerDay),
     volume |-> Some(MinAbsoluteVolume), open_interest |-> Some(33),
     last |-> 250, bid |-> 200, ask |-> 400, contract_size |-> ContractSize]

BaseUnderlyingQuote == [type |-> "stock", last |-> UnderlyingLast("NVDA")]

\* The pairs with the numbers at, just below and just above the thresholds
\* of the criteria.
ValidQuotePairs ==
    {[optionQuote |-> [BaseOptionQuote EXCEPT
                          !.expiration_date = Some(e),
                          !.volume = Some(v),
                          !.open_interest = Some(oi),
                          !.last = l],
      underlyingQuote |-> BaseUnderlyingQuote] :
        e \in {-HoursPerDay, -1, 0, MaxDte * HoursPerDay,
               (MaxDte + 1) * HoursPerDay},
        v \in {MinAbsoluteVolume - 1, MinAbsoluteVolume,
               3 * MinAbsoluteVolume},
        oi \in {0, 33, 34, 100},
        l \in {83, 84, 249, 250}}

\* The base pair with one field missing or of the wrong kind.
InvalidQuotePairs ==
    {[optionQuote |-> q, underlyingQuote |-> BaseUnderlyingQuote] :
        q \in {[BaseOptionQuote EXCEPT !.type = "stock"],
               [BaseOptionQuote EXCEPT !.option_type = ""],
               [BaseOptionQuote EXCEPT !.expiration_date = NULL],
               [BaseOptionQuote EXCEPT !.strike = NULL],
               [BaseOptionQuote EXCEPT !.strike = Some(0)],
               [BaseOptionQuote EXCEPT !.volume = NULL],
               [BaseOptionQuote EXCEPT !.open_interest = NULL],
               [BaseOptionQuote EXCEPT !.underlying = ""]}} \cup
    {[optionQuote |-> BaseOptionQuote,
      underlyingQuote |-> [BaseUnderlyingQuote EXCEPT !.type = "index"]]}

\* Ratio (hundredths), premium (cents), dte (days) and moneyness
\* (hundredths of a percent) at and next to the thresholds of
\* calculateSignalStrength.
StrengthInputs ==
    [volumeOiRatio : {299, 300, 499, 500},
     premium : {2499999, 2500000, 9999999, 10000000},
     dte : {30, 31, 45, 46},
     moneynessPercent : {-1000, -999, 999, 1000}]

\* A configuration with every threshold stricter than the default one
\* (MIN_PREMIUM, MIN_VOLUME_OI_RATIO, MIN_ABSOLUTE_VOLUME, MAX_DTE).
StricterConfig ==
    [minPremium |-> 2 * MinPremium, minVolumeOiRatio |-> MinVolumeOiRatio + 100,
     minAbsoluteVolume |-> 2 * MinAbsoluteVolume, maxDte |-> MaxDte - 1]

DetectConfigs == {signalConfig, StricterConfig}

\* Moneyness, in hundredths of a percent, at and next to the boundaries of
\* categorizeMoneyness.
MoneynessInputs ==
    {-5000, -1001, -1000, -999, -201, -200, -199, 0, 199, 200, 201, 999,
     1000, 1001, 5000}

\* The quotes of a batch: two that analyzeQuote accepts, one it rejects on
\* the criteria and one it rejects on the structure.
BatchQuotes ==
    {BaseOptionQuote,
     [BaseOptionQuote EXCEPT !.symbol = "NVDA250926C00175000"],
     [BaseOptionQuote EXCEPT !.symbol = "NVDA250919P00175000",
                             !.volume = Some(MinAbsoluteVolume - 1)],
     [BaseOptionQuote EXCEPT !.symbol = "NVDA250919C00180000",
                             !.open_interest = NULL]}

DetectInit ==
    /\ now = 0
    /\ config = CHOOSE c \in Configs : c.autoEnter
    /\ alertService = FALSE
    /\ unusual_signals = <<>>
    /\ paper_trades = <<>>
    /\ scanPc = "idle"
    /\ allSignals = <<>>
    /\ cycleSteps = <<>>
    /\ cycleInserted = {}
    /\ openTrades = <<>>
    /\ startPc = "init"
    /\ isRunning = FALSE
    /\ interval = "unset"
    /\ sigintHandler = FALSE
    /\ alive = TRUE
    /\ cycles = <<>>
    /\ \/ \E p \in ValidQuotePairs \cup InvalidQuotePairs,
                cfg \in DetectConfigs :
             last = [op |-> "input", fn |-> "analyzeQuote",
                     optionQuote |-> p.optionQuote,
                     underlyingQuote |-> p.underlyingQuote, cfg |-> cfg]
       \/ \E a \in StrengthInputs :
             last = [op |-> "input", fn |-> "calculateSignalStrength",
                     args |-> a]
       \/ \E m \in MoneynessInputs :
             last = [op |-> "input", fn |-> "categorizeMoneyness",
                     moneynessPercent |-> m]
       \/ \E qs \in SeqsUpTo(BatchQuotes, MaxQuotes) :
             last = [op |-> "input", fn |-> "analyzeMultipleQuotes",
                     optionQuotes |-> qs,
                     underlyingQuote |-> BaseUnderlyingQuote]

AnalyzeQuote ==
    /\ last.op = "input" /\ last.fn = "analyzeQuote"
    /\ last' = [op |-> "analyzeQuote",
                optionQuote |-> last.optionQuote,
                underlyingQuote |-> last.underlyingQuote,
                cfg |-> last.cfg,
                ret |-> analyzeQuote(last.optionQuote, last.underlyingQuote,
                                     now, last.cfg)]
    /\ UNCHANGED <<now, config, unusual_signals, paper_trades, scanVars,
                   scheduler, alertService>>

CalculateSignalStrength ==
    /\ last.op = "input" /\ last.fn = "calculateSignalStrength"
    /\ last' = [op |-> "calculateSignalStrength", args |-> last.args,
                ret |-> calculateSignalStrength(
                            last.args.volumeOiRatio, last.args.premium,
                            last.args.dte, last.args.moneynessPercent)]
    /\ UNCHANGED <<now, config, unusual_signals, paper_trades, scanVars,
                   scheduler, alertService>>

CategorizeMoneyness ==
    /\ last.op = "input" /\ last.fn = "categorizeMoneyness"
    /\ last' = [op |-> "categorizeMoneyness",
                moneynessPercent |-> last.moneynessPercent,
                ret |-> categorizeMoneyness(last.moneynessPercent)]
    /\ UNCHANGED <<now, config, unusual_signals, paper_trades, scanVars,
                   scheduler, alertService>>

AnalyzeMultipleQuotes ==
    /\ last.op = "input" /\ last.fn = "analyzeMultipleQuotes"
    /\ last' = [op |-> "analyzeMultipleQuotes",
                optionQuotes |-> last.optionQuotes,
                underlyingQuote |-> last.underlyingQuote,
                ret |-> analyzeMultipleQuotes(last.optionQuotes,
                                              last.underlyingQuote, now,
                                              signalConfig)]
    /\ UNCHANGED <<now, config, unusual_signals, paper_trades, scanVars,
                   scheduler, alertService>>

DetectNext ==
    \/ AnalyzeQuote
    \/ CalculateSignalStrength
    \/ CategorizeMoneyness
    \/ AnalyzeMultipleQuotes

DetectSpec == DetectInit /\ [][DetectNext]_vars

---------------------------------------------------------------------------
(* The paper trades on their own: enterTrade, updateTrade and exitTrade    *)
(* called in any order on the trades of stored signals, with current       *)
(* prices at, below and above the entry price.                             *)

\* bid, ask and last of the option quote a signal was made from: both
\* sides quoted, no bid (stored as null), a bid below zero.
LedgerQuotes ==
    {[bid |-> 200, ask |-> 400, last |-> 100],
     [bid |-> 0, ask |-> 400, last |-> 100],
     [bid |-> -100, ask |-> 400, last |-> 100]}

\* Row i of unusual_signals, left by an earlier run: a signal of
\* analyzeQuote (bid: bid || null) as insertSignal stored it.
LedgerSignal(i, q) ==
    [id |-> Some(i), detected_at |-> Some(1 - i),
     symbol |-> "NVDA250926C00175000", ticker |-> "NVDA",
     expiration_date |-> ExpirationOf("NVDA250926C00175000"),
     bid |-> IF q.bid = 0 THEN NULL ELSE Some(q.bid),
     ask |-> IF q.ask = 0 THEN NULL ELSE Some(q.ask),
     last_price |-> q.last,
     underlying_price |-> UnderlyingLast("NVDA")]

LedgerTables ==
    UNION {{[i \in 1..n |-> LedgerSignal(i, qs[i])] :
                qs \in [1..n -> LedgerQuotes]} : n \in 1..MaxLedgerSignals}

\* The mid price of a quote monitorOpenTrades may read.
LedgerPrices == {100, 300, 400}

TradeInit ==
    /\ now = 0
    /\ config = CHOOSE c \in Configs : c.autoEnter
    /\ alertService = FALSE
    /\ unusual_signals \in LedgerTables
    /\ paper_trades = <<>>
    /\ scanPc = "idle"
    /\ allSignals = <<>>
    /\ cycleSteps = <<>>
    /\ cycleInserted = {}
    /\ openTrades = <<>>
    /\ last = NoCall
    /\ startPc = "init"
    /\ isRunning = FALSE
    /\ interval = "unset"
    /\ sigintHandler = FALSE
    /\ alive = TRUE
    /\ cycles = <<>>

LedgerUpdate == UpdateTradeAt(LedgerPrices)

LedgerExit == ExitTradeAt(LedgerPrices)

TradeNext ==
    \/ EnterTrade
    \/ LedgerUpdate
    \/ LedgerExit
    \/ Return

TradeSpec == TradeInit /\ [][TradeNext]_vars

---------------------------------------------------------------------------
(* The scan cycles with a caller that updates and exits trades between    *)
(* them.                                                                   *)

UpkeepNext ==
    \/ ScanNext
    \/ UpdateTrade
    \/ ExitTrade

UpkeepSpec == ScanInit /\ [][UpkeepNext]_vars

---------------------------------------------------------------------------
(* The entry of trades on its own: enterTrade and autoEnterSignals called  *)
(* on stored signals and on signals without an id, with auto-entry on or   *)
(* off.                                                                    *)

EntryInit ==
    /\ now = 0
    /\ config \in Configs
    /\ alertService = FALSE
    /\ unusual_signals \in LedgerTables
    /\ paper_trades = <<>>
    /\ scanPc = "idle"
    /\ allSignals = <<>>
    /\ cycleSteps = <<>>
    /\ cycleInserted = {}
    /\ openTrades = <<>>
    /\ last = NoCall
    /\ startPc = "init"
    /\ isRunning = FALSE
    /\ interval = "unset"
    /\ sigintHandler = FALSE
    /\ alive = TRUE
    /\ cycles = <<>>

EntryNext ==
    \/ EnterTrade
    \/ AutoEnterSignals
    \/ Return

EntrySpec == EntryInit /\ [][EntryNext]_vars

---------------------------------------------------------------------------
(* The performance statistics on their own: getPerformanceStats on a table *)
(* of trades that enterTrade and exitTrade have left.                      *)

\* What has become of a trade: still open, or closed with a profit, a loss
\* or neither.
StatKinds == {"open", "win", "loss", "even"}

\* Entered at 3.00: closed at 4.00 (+100), at 2.50 (-50) or at 3.00 (0).
StatPrice(kind) ==
    CASE kind = "win" -> 400
      [] kind = "loss" -> 250
      [] OTHER -> 300

StatSignals(n) ==
    [i \in 1..n |-> LedgerSignal(i, [bid |-> 200, ask |-> 400, last |-> 100])]

\* The table after trade n of kind was entered and, unless it is still
\* open, closed.
StatTrade(trades, n, kind) ==
    LET entered == enterTrade(trades, StatSignals(n)[n], 0, NoFailure).trades
    IN IF kind = "open" THEN entered
       ELSE exitTrade(entered, entered[n], StatPrice(kind),
                      UnderlyingLast("NVDA"), "manual", 0, FALSE).trades

\* The table of the trades of kinds, one after the other (the table of the
\* first n - 1 is worked out once).
RECURSIVE StatTrades(_)
StatTrades(kinds) ==
    IF kinds = <<>> THEN <<>>
    ELSE LET n == Len(kinds)
         IN CHOOSE table \in {StatTrade(trades, n, kinds[n]) :
                        trades \in {StatTrades(SubSeq(kinds, 1, n - 1))}} : TRUE

StatsInit ==
    /\ now = 0
    /\ config = CHOOSE c \in Configs : c.autoEnter
    /\ alertService = FALSE
    /\ \E kinds \in SeqsUpTo(StatKinds, MaxStatTrades) :
          /\ unusual_signals = StatSignals(Len(kinds))
          /\ paper_trades = StatTrades(kinds)
    /\ scanPc = "idle"
    /\ allSignals = <<>>
    /\ cycleSteps = <<>>
    /\ cycleInserted = {}
    /\ openTrades = <<>>
    /\ last = NoCall
    /\ startPc = "init"
    /\ isRunning = FALSE
    /\ interval = "unset"
    /\ sigintHandler = FALSE
    /\ alive = TRUE
    /\ cycles = <<>>

GetPerformanceStats ==
    /\ last = NoCall
    /\ scanPc = "idle"
    /\ \E readFails \in BOOLEAN :
          last' = [op |-> "getPerformanceStats", readFails |-> readFails,
                   ret |-> getPerformanceStats(paper_trades, readFails)]
    /\ UNCHANGED <<scheduler, alertService, now, config, unusual_signals,
                   paper_trades, scanVars>>

StatsNext ==
    \/ GetPerformanceStats
    \/ Return

StatsSpec == StatsInit /\ [][StatsNext]_vars

---------------------------------------------------------------------------
(* Properties of the scheduler and of the scan cycle *)

\* C11: at most one runScan cycle is in flight at any time.
C11_OneCycleInFlight == Cardinality(InFlight) <= 1

\* C12: when the process has been stopped by SIGINT, every cycle that was
\* started has run to completion.
C12_InFlightCompletes == ~alive => InFlight = {}

\* C13: no two stored signals of the same option symbol have detection
\* times within the duplicate-suppression window of each other.
C13_NoDuplicateInWindow ==
    \A i, j \in 1..Len(unusual_signals) :
        (i < j /\ unusual_signals[i].symbol = unusual_signals[j].symbol) =>
            ~WithinWindow(unusual_signals[i].detected_at[1],
                          unusual_signals[j].detected_at[1])

CycleOver == last.op = "runScan"

\* C14: every scan cycle runs the steps of runScan in their order and
\* reaches the monitoring of the open trades.
C14_EveryCycleMonitors ==
    CycleOver =>
        /\ last.steps = RunScanOrder
        /\ \E k \in 1..Len(last.steps) : last.steps[k] = "monitor"

Processed == last.op = "processSignals"

\* C16: processSignals makes at most one notification attempt per signal,
\* and only for signals it has just stored; whatever the outcome of an
\* attempt, the stored signal stays stored, every signal of the batch is
\* processed, and the cycle goes on to the auto-entry step.
C16_AlertOncePerSignal ==
    Processed =>
        /\ \A a, b \in 1..Len(last.alerts) :
               a # b => last.alerts[a].id # last.alerts[b].id
        /\ \A a \in 1..Len(last.alerts) :
               last.alerts[a].id \in last.inserted
        /\ \A id \in last.inserted :
               /\ id <= Len(unusual_signals)
               /\ unusual_signals[id].id = Some(id)
        /\ last.visited = Len(allSignals)
        /\ scanPc = "enter"
        /\ ENABLED Return

C16_Witness ==
    /\ Processed
    /\ Len(last.alerts) = 2
    /\ last.alerts[1].outcome = "failed"
    /\ Cardinality(last.inserted) = 2

Scanned == last.op = "scanTickers"

\* C17: a market-data call of scanTicker that throws is not made again in
\* the cycle and gives no signal: none for the ticker when its quote or
\* expirations fetch throws, none for the expiration when its chain fetch
\* throws; and every ticker of the watchlist is scanned.
C17_ScanFailureIsNoData ==
    Scanned =>
        /\ \A a, b \in 1..Len(last.fetches) :
               a # b => last.fetches[a] # last.fetches[b]
        /\ \A i \in 1..Len(last.watchlist) :
               \E a \in 1..Len(last.fetches) :
                   last.fetches[a] = <<"quote", last.watchlist[i], 0>>
        /\ \A i \in last.failed :
               \A k \in 1..Len(allSignals) :
                   allSignals[k].ticker # last.watchlist[i]
        /\ \A c \in last.chainFailed :
               \A k \in 1..Len(allSignals) :
                   ~(/\ allSignals[k].ticker = c[1]
                     /\ allSignals[k].expiration_date = c[2])

C17_Witness ==
    /\ Scanned
    /\ Len(last.watchlist) = 2
    /\ 1 \in last.failed
    /\ allSignals # <<>>

\* C18: a runScan never throws on to its caller, whatever failed in it, and
\* a cycle in flight can always take its next step, so that it ends and the
\* next cycle can start.
C18_RunScanReturns ==
    /\ CycleOver => ~last.propagated
    /\ scanPc # "idle" => ENABLED CycleNext
    /\ (scanPc = "idle" /\ last = NoCall) => ENABLED ScanBegin

C18_Witness == CycleOver /\ last.thrown /\ scanPc = "idle"

---------------------------------------------------------------------------
(* Properties of the detector *)

Analyzed == last.op = "analyzeQuote"

\* The checks of analyzeQuote on the structure of the pair, on the input.
StructurallyValid(q, u) ==
    /\ q.type = "option" /\ q.option_type \in {"call", "put"}
    /\ u.type \in {"stock", "etf"}
    /\ q.expiration_date # NULL /\ Truthy(q.strike)
    /\ q.volume # NULL /\ q.open_interest # NULL
    /\ q.underlying # ""

\* C19: for a structurally valid pair analyzeQuote returns a signal exactly
\* when volume >= minAbsoluteVolume, openInterest > 0, volume / openInterest
\* >= minVolumeOiRatio, premium >= minPremium and 0 <= dte <= maxDte; zero
\* open interest and a negative dte are always rejected.
C19_SignalIffCriteria ==
    (Analyzed /\ StructurallyValid(last.optionQuote, last.underlyingQuote)) =>
        LET q == last.optionQuote
            volume == q.volume[1]
            openInterest == q.open_interest[1]
            premium == q.last * volume * q.contract_size
            dte == calculateDTE(q.expiration_date[1], now)
        IN /\ last.ret # NULL <=>
                  /\ volume >= last.cfg.minAbsoluteVolume
                  /\ openInterest > 0
                  /\ volume * 100 >= last.cfg.minVolumeOiRatio * openInterest
                  /\ premium >= last.cfg.minPremium
                  /\ 0 <= dte /\ dte <= last.cfg.maxDte
           /\ (openInterest = 0 \/ dte < 0) => last.ret = NULL

C19_Witness ==
    /\ Analyzed /\ last.ret # NULL /\ last.cfg = signalConfig
    /\ last.ret[1].volume = MinAbsoluteVolume
    /\ last.ret[1].premium = MinPremium
    /\ last.ret[1].dte = MaxDte

Classified == last.op = "calculateSignalStrength"

Categorized == last.op = "categorizeMoneyness"

\* C21: categorizeMoneyness puts every percent in exactly one category:
\* deep_itm iff p < -10, itm iff -10 <= p < -2, atm iff -2 <= p <= 2, otm iff
\* 2 < p <= 10, deep_otm iff p > 10; so -10, -2, 2, 10 are itm, atm, atm, otm.
C21_MoneynessPartition ==
    Categorized =>
        LET p == last.moneynessPercent
        IN /\ last.ret \in {"deep_itm", "itm", "atm", "otm", "deep_otm"}
           /\ last.ret = "deep_itm" <=> p < -1000
           /\ last.ret = "itm" <=> (-1000 <= p /\ p < -200)
           /\ last.ret = "atm" <=> (-200 <= p /\ p <= 200)
           /\ last.ret = "otm" <=> (200 < p /\ p <= 1000)
           /\ last.ret = "deep_otm" <=> p > 1000

C21_Witness ==
    Categorized /\ last.moneynessPercent = -1000 /\ last.ret = "itm"

Batched == last.op = "analyzeMultipleQuotes"

\* C26: analyzeMultipleQuotes returns the signals analyzeQuote gives for the
\* quotes of the batch, each on its own, in the order of the input, without
\* the quotes that give null and without removing a repeated one; the
\* output is never longer than the input.
C26_BatchIsSubsequence ==
    Batched =>
        LET signalOf(q) == analyzeQuote(q, last.underlyingQuote, now,
                                        signalConfig)
            accepted == SelectSeq(last.optionQuotes,
                                  LAMBDA q : signalOf(q) # NULL)
        IN /\ Len(last.ret) = Len(accepted)
           /\ \A k \in 1..Len(accepted) :
                  last.ret[k] = signalOf(accepted[k])[1]
           /\ Len(last.ret) <= Len(last.optionQuotes)

C26_Witness ==
    /\ Batched /\ Len(last.optionQuotes) = 3 /\ Len(last.ret) = 2
    /\ last.ret[1].symbol = last.ret[2].symbol
    /\ last.optionQuotes[2].open_interest = NULL

\* The five criteria of meetsUnusualCriteria for a quote with its volume,
\* open interest and expiration present.
CriteriaHold(q, cfg, t) ==
    /\ q.volume[1] >= cfg.minAbsoluteVolume
    /\ q.open_interest[1] > 0
    /\ q.volume[1] * 100 >= cfg.minVolumeOiRatio * q.open_interest[1]
    /\ q.last * q.volume[1] * q.contract_size >= cfg.minPremium
    /\ 0 <= calculateDTE(q.expiration_date[1], t)
    /\ calculateDTE(q.expiration_date[1], t) <= cfg.maxDte

\* What C27 lists: a wrong kind or a missing field.
KindOrFieldMissing(q, u) ==
    \/ q.type # "option" \/ q.option_type = ""
    \/ u.type \notin {"stock", "etf"}
    \/ q.expiration_date = NULL \/ q.strike = NULL
    \/ q.volume = NULL \/ q.open_interest = NULL
    \/ q.underlying = ""

\* C27: analyzeQuote returns null when the option quote is not an option or
\* has no option type, the underlying is neither stock nor etf, or one of
\* expiration, strike, volume, open interest and underlying ticker is
\* missing; nothing else is rejected before the criteria: a quote with all
\* of them present is judged on the criteria alone, whatever their values.
C27_OnlyStructuralRejections ==
    Analyzed =>
        LET q == last.optionQuote
            u == last.underlyingQuote
        IN IF KindOrFieldMissing(q, u) THEN last.ret = NULL
           ELSE last.ret # NULL <=> CriteriaHold(q, last.cfg, now)

---------------------------------------------------------------------------
(* Properties of the paper trades and of their statistics *)

StatsRead == last.op = "getPerformanceStats" /\ ~last.readFails

\* C22: getPerformanceStats counts as closedTrades every trade that is not
\* open and has a pnl, a pnl of 0 included (neither winning nor losing), as
\* openTrades the trades with status open, and reports winRate =
\* winningTrades / closedTrades * 100, 0 when no trade is closed: closed
\* trades with pnl 100, -50 and 0 give 1, 1, 3, 33.33 and a total of 50.
C22_PerformanceCounts ==
    StatsRead =>
        LET all == 1..Len(paper_trades)
            open == {i \in all : paper_trades[i].status = "open"}
            closed == {i \in all : /\ paper_trades[i].status # "open"
                                   /\ paper_trades[i].pnl # NULL}
            winning == {i \in closed : paper_trades[i].pnl[1] > 0}
            losing == {i \in closed : paper_trades[i].pnl[1] < 0}
        IN /\ last.ret.closedTrades = Cardinality(closed)
           /\ last.ret.openTrades = Cardinality(open)
           /\ last.ret.winningTrades = Cardinality(winning)
           /\ last.ret.losingTrades = Cardinality(losing)
           /\ last.ret.winRate =
                  IF closed = {} THEN 0
                  ELSE Round(Cardinality(winning) * 10000, Cardinality(closed))

\* C23: an entry price of 0 is rejected by calculatePnL, so updateTrade and
\* exitTrade never write a pnl_pct, max_pnl_pct or min_pnl_pct that comes
\* from a division by zero: every stored percentage is a finite number.
C23_NoDivisionByZeroWritten ==
    \A i \in 1..Len(paper_trades) :
        \A f \in {"pnl_pct", "max_pnl_pct", "min_pnl_pct"} :
            paper_trades[i][f] # NULL => paper_trades[i][f][1] \notin NonFinite

\* C24: a successful updateTrade stores max(prior max, current) and
\* min(prior min, current), for the amount and for the percentage, taking
\* the current value alone only when the prior one is null, and leaves the
\* status: a stored max never decreases and a stored min never increases,
\* also when it is 0.
C24_ExtremaMonotone ==
    [][(last'.op = "updateTrade" /\ ~last'.writeFails) =>
          LET old == paper_trades[last'.id]
              new == paper_trades'[last'.id]
              p == calculatePnL(old.entry_price, last'.price, old.quantity,
                                ContractSize)
          IN /\ new.status = old.status
             /\ new.max_pnl = IF old.max_pnl = NULL THEN Some(p.pnl)
                              ELSE Some(Max(old.max_pnl[1], p.pnl))
             /\ new.min_pnl = IF old.min_pnl = NULL THEN Some(p.pnl)
                              ELSE Some(Min(old.min_pnl[1], p.pnl))
             /\ old.max_pnl # NULL => new.max_pnl[1] >= old.max_pnl[1]
             /\ old.min_pnl # NULL => new.min_pnl[1] <= old.min_pnl[1]
             /\ old.max_pnl_pct # NULL =>
                    new.max_pnl_pct[1] >= old.max_pnl_pct[1]
             /\ old.min_pnl_pct # NULL =>
                    new.min_pnl_pct[1] <= old.min_pnl_pct[1]]_vars

Entered == last.op = "enterTrade" /\ last.created

\* C25: the trade enterTrade creates is open and long, has the underlying
\* price of the signal, no max/min P/L and no exit field, and its entry
\* price is the midpoint of bid and ask when both are present and above 0,
\* the last price of the signal otherwise; it is never the 0 that
\* calculateMidPrice answers for an invalid bid or ask.
C25_EntryPrice ==
    Entered =>
        LET trade == last.ret[1]
            signal == unusual_signals[last.signal_id[1]]
            valid == /\ signal.bid # NULL /\ signal.ask # NULL
                     /\ signal.bid[1] > 0 /\ signal.ask[1] > 0
        IN /\ trade.status = "open" /\ trade.direction = "long"
           /\ trade.entry_underlying_price = signal.underlying_price
           /\ \A f \in {"max_pnl", "max_pnl_pct", "min_pnl", "min_pnl_pct",
                         "exit_price", "exit_time", "exit_underlying_price",
                         "exit_reason", "pnl", "pnl_pct"} : trade[f] = NULL
           /\ trade.entry_price =
                  IF valid THEN (signal.bid[1] + signal.ask[1]) \div 2
                  ELSE signal.last_price
           /\ trade.entry_price # 0

ExitFields == {"exit_price", "exit_time", "exit_reason", "pnl", "pnl_pct"}

---------------------------------------------------------------------------
(* Properties of the alerts *)

\* C30: processSignals sends an alert for a signal only after insertSignal
\* has returned its stored row, with an id, in this cycle, and logs an alert
\* only after it was sent: a signal that is skipped as existing, or whose
\* insert fails or returns nothing, gets no alert, and every row of
\* alert_log refers to a stored signal.
C30_AlertOnlyForStoredSignal ==
    Processed =>
        /\ \A a \in 1..Len(last.alerts) :
               LET id == last.alerts[a].id
               IN /\ id \in last.inserted
                  /\ id > last.before /\ id <= Len(unusual_signals)
                  /\ unusual_signals[id].id = Some(id)
        /\ Len(last.alerts) <= Cardinality(last.inserted)
        /\ Len(last.alerts) <= last.visited
        /\ \A l \in 1..Len(last.logged) :
               /\ \E a \in 1..Len(last.alerts) :
                      /\ last.alerts[a].id = last.logged[l].signal_id
                      /\ last.alerts[a].outcome = "sent"
               /\ last.logged[l].signal_id \in 1..Len(unusual_signals)
        /\ ~alertService => (last.alerts = <<>> /\ last.logged = <<>>)

C30_Witness ==
    /\ Processed /\ alertService
    /\ last.visited = 2 /\ Cardinality(last.inserted) = 1
    /\ Len(last.alerts) = 1 /\ Len(last.logged) = 1

====
